---- MODULE Spec2Model ----
(***************************************************************************)
(* Bookmarks REST API: user registration / login / tokens (src/src/auth.py), *)
(* the User and Bookmark records with the short-code generator              *)
(* (src/src/database.py) and the public redirect route                      *)
(* (src/src/__init__.py).                                                   *)
(*                                                                          *)
(* Strings are sequences of one-character strings.  Route handlers that     *)
(* read the store and later commit are split at the commit, so that the     *)
(* requests of concurrent callers interleave between the two; the requests  *)
(* in flight are kept in bags, one per position in a handler.               *)
(***************************************************************************)
EXTENDS Integers, Sequences, FiniteSets, Bags, TLC

VARIABLES
    users,        \* table user: sequence of rows, in insertion order
    bookmarks,    \* table bookmark: sequence of rows, in insertion order
    tokens,       \* the JWTs issued so far
    registering,  \* register(): requests past the checks, before the commit
    generating,   \* Bookmark.__init__: inside generate_short_character
    constructed,  \* Bookmarks constructed, before session.add / commit
    redirecting,  \* redirect_to_url: bookmark loaded, visits += 1 done, before the commit
    response,     \* the HTTP response sent last
    hits,         \* history: per bookmark id, the redirects answered with its url
    failedLogins  \* history: the 401 answers of login, each with its cause

vars == <<users, bookmarks, tokens, registering, generating, constructed,
          redirecting, response, hits, failedLogins>>

----------------------------------------------------------------------------
(* Bounds of the model *)

MaxInflight == 2

MaxBookmarks == 2

MaxRedirects == 3

----------------------------------------------------------------------------
(* Characters and strings *)

Digit == {"0", "1", "2", "3", "4", "5", "6", "7", "8", "9"}

Letter == {"a", "b", "c", "d", "e", "f", "g", "h", "i", "j", "k", "l", "m",
           "n", "o", "p", "q", "r", "s", "t", "u", "v", "w", "x", "y", "z",
           "A", "B", "C", "D", "E", "F", "G", "H", "I", "J", "K", "L", "M",
           "N", "O", "P", "Q", "R", "S", "T", "U", "V", "W", "X", "Y", "Z"}

Range(s) == {s[i] : i \in DOMAIN s}

\* str.isalnum(): non-empty and every character a letter or a digit
isalnum(s) == Len(s) > 0 /\ \A i \in DOMAIN s : s[i] \in Digit \cup Letter

\* Python's None: not a string (no character has four letters)
None == <<"None">>

\* str(n) for n >= 0, in decimal
DigitOf(d) == CASE d = 0 -> "0" [] d = 1 -> "1" [] d = 2 -> "2" [] d = 3 -> "3"
                [] d = 4 -> "4" [] d = 5 -> "5" [] d = 6 -> "6" [] d = 7 -> "7"
                [] d = 8 -> "8" [] d = 9 -> "9"

RECURSIVE str(_)
str(n) == IF n < 10 THEN <<DigitOf(n)>> ELSE Append(str(n \div 10), DigitOf(n % 10))

ValueOf(c) == CHOOSE d \in 0..9 : DigitOf(d) = c

\* the integer a column of type Integer compares a decimal string to
RECURSIVE int(_)
int(s) == IF Len(s) = 0 THEN 0
          ELSE 10 * int(SubSeq(s, 1, Len(s) - 1)) + ValueOf(s[Len(s)])

----------------------------------------------------------------------------
(* The inputs of the requests *)

\* too short; with a space; with an underscore; two acceptable ones
Usernames == { <<"a", "b">>, <<"a", " ", "b">>, <<"a", "_", "b">>,
               <<"b", "o", "b">>, <<"a", "m", "y", "1">> }

\* no "@"; two well-formed ones
Emails == { <<"b", "o", "b">>, <<"a", "@", "x", ".", "i", "o">>,
            <<"b", "@", "x", ".", "i", "o">> }

\* too short; acceptable
Passwords == { <<"a", "b", "c">>, <<"s", "e", "c", "r", "e", "t">> }

\* request.json.get(..., ''): a missing field is the empty string
LoginEmails == Emails \cup { <<>> }

LoginPasswords == Passwords \cup { <<>> }

Salts == {"s1"}

Urls == { <<"h", "t", "t", "p", ":", "/", "/", "x">> }

----------------------------------------------------------------------------
(* HTTP status codes, src/constants/http_status_codes as imported *)

HTTP_200_OK == 200

HTTP_201_CREATED == 201

HTTP_302_FOUND == 302

HTTP_400_BAD_REQUEST == 400

HTTP_401_UNAUTHORIZED == 401

HTTP_404_NOT_FOUND == 404

HTTP_409_CONFLICT == 409

HTTP_500_INTERNAL_SERVER_ERROR == 500

Response(op, status, body) == [op |-> op, status |-> status, body |-> body]

Error(msg) == [error |-> msg]

NoResponse == Response("none", 0, Error(""))

----------------------------------------------------------------------------
(* The libraries at the boundary *)

\* werkzeug.security: the salted one-way digest, kept symbolic
Digest(salt, password) == [salt |-> salt, of |-> password]

generate_password_hash(password, salt) ==
    [method |-> "scrypt", salt |-> salt, digest |-> Digest(salt, password)]

check_password_hash(pwhash, password) ==
    pwhash.digest = Digest(pwhash.salt, password)

\* validators.email: one "@", a local part, a dotted domain, no spaces
validators_email(value) ==
    LET ats == {i \in DOMAIN value : value[i] = "@"} IN
    /\ Cardinality(ats) = 1
    /\ LET at == CHOOSE i \in ats : TRUE
           domain == SubSeq(value, at + 1, Len(value))
       IN  /\ at > 1
           /\ \A i \in DOMAIN value : value[i] # " "
           /\ Len(domain) >= 3
           /\ domain[1] # "."
           /\ domain[Len(domain)] # "."
           /\ \E j \in DOMAIN domain : domain[j] = "."

\* flask_jwt_extended: a signed token carries its type and its subject.
\* `to` is history: the user (username, email) the token was handed to.
create_refresh_token(identity, to) == [type |-> "refresh", sub |-> identity, to |-> to]

create_access_token(identity, to) == [type |-> "access", sub |-> identity, to |-> to]

\* @jwt_required(): only a token this server signed, of the access type
jwt_required(t) == t \in tokens /\ t.type = "access"

\* @jwt_required(refresh=True)
jwt_required_refresh(t) == t \in tokens /\ t.type = "refresh"

get_jwt_identity(t) == t.sub

----------------------------------------------------------------------------
(* The requests in flight *)

Put(bag, r) == bag (+) SetToBag({r})

Take(bag, r) == bag (-) SetToBag({r})

Inflight == BagCardinality(registering) + BagCardinality(generating)
            + BagCardinality(constructed) + BagCardinality(redirecting)

----------------------------------------------------------------------------
(* Table user *)

UsersByEmail(email) == {u \in Range(users) : u.email = email}

UsersByUsername(username) == {u \in Range(users) : u.username = username}

\* filter_by(id=user_id) with the identity string of a token
UsersById(user_id) == {u \in Range(users) : u.id = int(user_id)}

\* the table without its unique constraints
NoUniqueConstraint(row) == FALSE

\* unique=True on username and on email: the INSERT is refused
UniqueViolation(row) ==
    UsersByUsername(row.username) # {} \/ UsersByEmail(row.email) # {}

Identity(user) == [username |-> user.username, email |-> user.email]

----------------------------------------------------------------------------
(* POST /api/v1/auth/register *)

Passed == NoResponse

\* the checks with the username length tested before the password length
register_checks_username_first(username, email, password) ==
    IF Len(username) < 3
    THEN Response("register", HTTP_400_BAD_REQUEST, Error("username too short"))
    ELSE IF Len(password) < 6
    THEN Response("register", HTTP_400_BAD_REQUEST, Error("Password is too short"))
    ELSE IF ~isalnum(username) \/ " " \in Range(username)
    THEN Response("register", HTTP_400_BAD_REQUEST,
                  Error("username should be alphanumeric char and no spaces"))
    ELSE IF ~validators_email(email)
    THEN Response("register", HTTP_400_BAD_REQUEST, Error("Email is not valid"))
    ELSE IF {u \in Range(users) : u.email = email} # {}
    THEN Response("register", HTTP_409_CONFLICT, Error("Email already exists"))
    ELSE IF {u \in Range(users) : u.username = username} # {}
    THEN Response("register", HTTP_409_CONFLICT, Error("Username already exists"))
    ELSE Passed

\* the checks of register(), in the order of the code; Passed when none fails
register_checks(username, email, password) ==
    IF Len(password) < 6
    THEN Response("register", HTTP_400_BAD_REQUEST, Error("Password is too short"))
    ELSE IF Len(username) < 3
    THEN Response("register", HTTP_400_BAD_REQUEST, Error("username too short"))
    ELSE IF ~isalnum(username) \/ " " \in Range(username)
    THEN Response("register", HTTP_400_BAD_REQUEST,
                  Error("username should be alphanumeric char and no spaces"))
    ELSE IF ~validators_email(email)
    THEN Response("register", HTTP_400_BAD_REQUEST, Error("Email is not valid"))
    ELSE IF UsersByEmail(email) # {}
    THEN Response("register", HTTP_409_CONFLICT, Error("Email already exists"))
    ELSE IF UsersByUsername(username) # {}
    THEN Response("register", HTTP_409_CONFLICT, Error("Username already exists"))
    ELSE Passed

\* register() up to generate_password_hash; the two lookups of the checks
\* read the table in one step, the commit is a step of its own
Register(username, email, password) ==
    LET r == register_checks(username, email, password) IN
    /\ IF r # Passed
       THEN /\ response' = r
            /\ UNCHANGED registering
       ELSE /\ Inflight < MaxInflight
            /\ \E salt \in Salts :
                 registering' = Put(registering,
                     [username |-> username, email |-> email,
                      password |-> generate_password_hash(password, salt)])
            /\ UNCHANGED response
    /\ UNCHANGED <<users, bookmarks, tokens, generating, constructed,
                   redirecting, hits, failedLogins>>

handle_500 ==
    Error("Something went wrong in the application, please try again")

\* db.session.add(user); db.session.commit() and the answer
RegisterCommit ==
    \E r \in BagToSet(registering) :
       /\ registering' = Take(registering, r)
       /\ IF UniqueViolation(r)
          THEN /\ response' = Response("register", HTTP_500_INTERNAL_SERVER_ERROR,
                                       handle_500)
               /\ UNCHANGED users
          ELSE /\ users' = Append(users,
                      [id |-> Len(users) + 1, username |-> r.username,
                       email |-> r.email, password |-> r.password])
               /\ response' = Response("register", HTTP_201_CREATED,
                      [message |-> "User created",
                       user |-> [username |-> r.username, email |-> r.email]])
       /\ UNCHANGED <<bookmarks, tokens, generating, constructed, redirecting,
                      hits, failedLogins>>

----------------------------------------------------------------------------
(* POST /api/v1/auth/login *)

wrong_credentials == Error("wrong credetntials")

\* a login that tells an unknown email from a wrong password
login_failure_telling(email) ==
    IF {u \in Range(users) : u.email = email} = {}
    THEN Response("login", HTTP_404_NOT_FOUND, Error("no such user"))
    ELSE Response("login", HTTP_401_UNAUTHORIZED, wrong_credentials)

\* the one return statement both failures reach
login_failure(email) == Response("login", HTTP_401_UNAUTHORIZED, wrong_credentials)

\* the users login() accepts the password of
Authenticated(email, password) ==
    {u \in UsersByEmail(email) : check_password_hash(u.password, password)}

Login(email, password) ==
    /\ IF Authenticated(email, password) # {}
       THEN \E user \in Authenticated(email, password) :
              LET refresh == create_refresh_token(str(user.id), Identity(user))
                  access == create_access_token(str(user.id), Identity(user))
              IN  /\ tokens' = tokens \cup {refresh, access}
                  /\ response' = Response("login", HTTP_200_OK,
                         [user |-> [refresh |-> refresh, access |-> access,
                                    username |-> user.username,
                                    email |-> user.email]])
                  /\ UNCHANGED failedLogins
       ELSE /\ response' = login_failure(email)
            /\ failedLogins' = failedLogins \cup
                 {[cause |-> IF UsersByEmail(email) = {} THEN "no user"
                                                         ELSE "wrong password",
                   status |-> login_failure(email).status,
                   body |-> login_failure(email).body]}
            /\ UNCHANGED tokens
    /\ UNCHANGED <<users, bookmarks, registering, generating, constructed,
                   redirecting, hits>>

----------------------------------------------------------------------------
(* GET /api/v1/auth/user and POST /api/v1/auth/token/refresh *)

\* currentUser(): the except branch answers 400 with the text of the exception
current_user(t) ==
    LET found == UsersById(get_jwt_identity(t)) IN
    IF found # {}
    THEN LET user == CHOOSE u \in found : TRUE IN
         Response("user", HTTP_200_OK,
                  [username |-> user.username, email |-> user.email])
    ELSE Response("user", HTTP_400_BAD_REQUEST,
                  Error("'NoneType' object has no attribute 'username'"))

CurrentUser(t) ==
    /\ jwt_required(t)
    /\ response' = current_user(t)
    /\ UNCHANGED <<users, bookmarks, tokens, registering, generating,
                   constructed, redirecting, hits, failedLogins>>

\* a refresh that names the first user whoever asks
refresh_identity_fixed(t) == str(1)

\* identity=get_jwt_identity() of the refresh token
refresh_identity(t) == get_jwt_identity(t)

RefreshToken(t) ==
    /\ jwt_required_refresh(t)
    /\ LET access == create_access_token(refresh_identity(t), t.to) IN
       /\ tokens' = tokens \cup {access}
       /\ response' = Response("refresh", HTTP_200_OK, [access |-> access])
    /\ UNCHANGED <<users, bookmarks, registering, generating, constructed,
                   redirecting, hits, failedLogins>>

----------------------------------------------------------------------------
(* Table bookmark and the short codes *)

ShortLen == 3

\* string.digits + string.ascii_letters, cut to one digit and one letter so
\* that a run can use up every code
characters == <<"0", "a">>

\* random.choices(characters, k=3), joined
Codes == [1..ShortLen -> Range(characters)]

\* self.query.filter_by(short_url=picked_chars): the rows that match
link(picked_chars) == {b \in Range(bookmarks) : b.short_url = picked_chars}

FreeCodes == {c \in Codes : link(c) = {}}

\* what the outermost generate_short_character() returns when a free code is
\* picked: the frames below the first discard the value of the call they made
generate_result(retried, picked_chars) ==
    IF retried THEN None ELSE picked_chars

\* the Bookmarks under construction (the model caps them and the rows)
Creating == BagCardinality(generating) + BagCardinality(constructed)

\* the bookmarks blueprint: a creation needs a valid access token
create_bookmark(t) == jwt_required(t)

\* the bookmarks blueprint: the owner is the identity of the token
bookmark_owner(t) == int(get_jwt_identity(t))

\* Bookmark.__init__ up to the call of generate_short_character;
\* `retried` says that the frame drawing now was called by another frame
BookmarkConstruct(user_id, url, cap) ==
    /\ Inflight < MaxInflight
    /\ Len(bookmarks) + Creating < cap
    /\ generating' = Put(generating,
           [user_id |-> user_id, url |-> url, retried |-> FALSE])
    /\ UNCHANGED <<users, bookmarks, tokens, registering, constructed,
                   redirecting, response, hits, failedLogins>>

\* a generator that gives up on a collision and keeps the candidate
GenerateGiveUp ==
    \E g \in BagToSet(generating), picked_chars \in Codes :
       /\ link(picked_chars) # {}
       /\ generating' = Take(generating, g)
       /\ constructed' = Put(constructed,
              [user_id |-> g.user_id, url |-> g.url, short_url |-> picked_chars])
       /\ UNCHANGED <<users, bookmarks, tokens, registering, redirecting,
                      response, hits, failedLogins>>

\* one frame of generate_short_character whose candidate is taken: it calls itself
GenerateRetry ==
    \E g \in BagToSet(generating), picked_chars \in Codes :
       /\ link(picked_chars) # {}
       /\ generating' = Put(Take(generating, g),
              [g EXCEPT !.retried = TRUE])
       /\ UNCHANGED <<users, bookmarks, tokens, registering, constructed,
                      redirecting, response, hits, failedLogins>>

\* one frame whose candidate is free: the recursion unwinds and __init__ assigns
GenerateReturn ==
    \E g \in BagToSet(generating), picked_chars \in Codes :
       /\ link(picked_chars) = {}
       /\ generating' = Take(generating, g)
       /\ constructed' = Put(constructed,
              [user_id |-> g.user_id, url |-> g.url,
               short_url |-> generate_result(g.retried, picked_chars)])
       /\ UNCHANGED <<users, bookmarks, tokens, registering, redirecting,
                      response, hits, failedLogins>>

\* the bookmarks blueprint: db.session.add(bookmark); db.session.commit()
BookmarkCommit ==
    \E c \in BagToSet(constructed) :
       /\ constructed' = Take(constructed, c)
       /\ bookmarks' = Append(bookmarks,
              [id |-> Len(bookmarks) + 1, url |-> c.url, short_url |-> c.short_url,
               visits |-> 0, user_id |-> c.user_id])
       /\ hits' = Append(hits, 0)
       /\ response' = Response("bookmark", HTTP_201_CREATED,
              [url |-> c.url, short_url |-> c.short_url])
       /\ UNCHANGED <<users, tokens, registering, generating, redirecting,
                      failedLogins>>

----------------------------------------------------------------------------
(* GET /<short_url> *)

\* the path segments tried: every code, and one that is no code
Paths == Codes \cup { <<"a", "0">> }

handle_404 == Response("redirect", HTTP_404_NOT_FOUND, Error("Not found"))

Pending(id) == {r \in BagToSet(redirecting) : r.id = id}

PendingCount(id) ==
    LET n[S \in SUBSET Pending(id)] ==
          IF S = {} THEN 0
          ELSE LET r == CHOOSE x \in S : TRUE
               IN  CopiesIn(r, redirecting) + n[S \ {r}]
    IN  n[Pending(id)]

\* redirect_to_url up to bookmark.visits += 1; first() is any matching row
Redirect(short_url) ==
    LET found == {b \in Range(bookmarks) : b.short_url = short_url} IN
    /\ IF found = {}
       THEN /\ response' = handle_404
            /\ UNCHANGED redirecting
       ELSE /\ Inflight < MaxInflight
            /\ \E bookmark \in found :
                 /\ hits[bookmark.id] + PendingCount(bookmark.id) < MaxRedirects
                 /\ redirecting' = Put(redirecting,
                        [id |-> bookmark.id, visits |-> bookmark.visits + 1])
            /\ UNCHANGED response
    /\ UNCHANGED <<users, bookmarks, tokens, registering, generating,
                   constructed, hits, failedLogins>>

\* db.session.commit() writes the value computed from the row as loaded
RedirectCommit ==
    \E r \in BagToSet(redirecting) :
       /\ redirecting' = Take(redirecting, r)
       /\ bookmarks' = [bookmarks EXCEPT ![r.id].visits = r.visits]
       /\ hits' = [hits EXCEPT ![r.id] = @ + 1]
       /\ response' = Response("redirect", HTTP_302_FOUND,
                               [location |-> bookmarks[r.id].url])
       /\ UNCHANGED <<users, tokens, registering, generating, constructed,
                      failedLogins>>

----------------------------------------------------------------------------
(* The application *)

Init ==
    /\ users = <<>>
    /\ bookmarks = <<>>
    /\ tokens = {}
    /\ registering = EmptyBag
    /\ generating = EmptyBag
    /\ constructed = EmptyBag
    /\ redirecting = EmptyBag
    /\ response = NoResponse
    /\ hits = <<>>
    /\ failedLogins = {}

AuthNext ==
    \/ \E username \in Usernames, email \in Emails, password \in Passwords :
          Register(username, email, password)
    \/ RegisterCommit
    \/ \E email \in LoginEmails, password \in LoginPasswords : Login(email, password)
    \/ \E t \in tokens : CurrentUser(t)
    \/ \E t \in tokens : RefreshToken(t)

BookmarkNext ==
    \/ \E t \in tokens, url \in Urls :
          create_bookmark(t) /\ BookmarkConstruct(bookmark_owner(t), url, MaxBookmarks)
    \/ GenerateRetry
    \/ GenerateReturn
    \/ BookmarkCommit
    \/ \E short_url \in Paths : Redirect(short_url)
    \/ RedirectCommit

Next == AuthNext \/ BookmarkNext

\* the whole application
Spec == Init /\ [][Next]_vars

\* the authentication blueprint alone: no route of it reads or writes a bookmark
AuthSpec == Init /\ [][AuthNext]_vars

\* one user registered and logged in, as Register, RegisterCommit and Login leave it
FirstUser ==
    [id |-> 1, username |-> <<"b", "o", "b">>,
     email |-> <<"b", "@", "x", ".", "i", "o">>,
     password |-> generate_password_hash(<<"s", "e", "c", "r", "e", "t">>, "s1")]

SignedIn ==
    /\ users = <<FirstUser>>
    /\ tokens = {create_refresh_token(str(FirstUser.id), Identity(FirstUser)),
                 create_access_token(str(FirstUser.id), Identity(FirstUser))}
    /\ registering = EmptyBag
    /\ generating = EmptyBag
    /\ constructed = EmptyBag
    /\ redirecting = EmptyBag
    /\ response = NoResponse
    /\ failedLogins = {}

BookmarkInit ==
    /\ SignedIn
    /\ bookmarks = <<>>
    /\ hits = <<>>

\* the bookmark routes and the redirect route, for a user who is logged in
BookmarkSpec == BookmarkInit /\ [][BookmarkNext]_vars

----------------------------------------------------------------------------
(* The short-code generator on a code space that is nearly used up *)

\* the codes free at the start, at most
MaxFree == 1

\* the rows the table may hold beyond one per code
MaxExtra == 2

\* rows created one after the other, one per code of S, never visited
RECURSIVE RowsOf(_)
RowsOf(S) ==
    IF S = {} THEN <<>>
    ELSE LET c == CHOOSE x \in S : TRUE
         IN  Append(RowsOf(S \ {c}),
                    [id |-> Cardinality(S), url |-> CHOOSE u \in Urls : TRUE,
                     short_url |-> c, visits |-> 0, user_id |-> FirstUser.id])

GenInit ==
    /\ SignedIn
    /\ \E S \in SUBSET Codes :
         /\ Cardinality(Codes \ S) <= MaxFree
         /\ bookmarks = RowsOf(S)
         /\ hits = [i \in 1..Cardinality(S) |-> 0]

GenNext ==
    \/ \E t \in tokens, url \in Urls :
          /\ create_bookmark(t)
          /\ BookmarkConstruct(bookmark_owner(t), url, Cardinality(Codes) + MaxExtra)
    \/ GenerateRetry
    \/ GenerateReturn
    \/ BookmarkCommit

\* random.choices draws every code with the same probability: a generation
\* that keeps drawing while a free code exists draws a free one in the end
GenSpec == GenInit /\ [][GenNext]_vars /\ WF_vars(GenerateReturn)

----------------------------------------------------------------------------
(* Properties *)

\* C1: no two rows of table bookmark have the same short_url, whatever the
\* order and interleaving of the creations.
C1_ShortUrlsUnique ==
    \A i, j \in DOMAIN bookmarks :
       i # j => bookmarks[i].short_url # bookmarks[j].short_url

\* a string of exactly 3 characters, each a digit or a Latin letter
IsShortCode(s) ==
    /\ Len(s) = 3
    /\ \A i \in DOMAIN s : s[i] \in Digit \cup Letter

\* C2: every Bookmark constructed has a short_url of exactly 3 characters of
\* the alphabet, also when candidates collided before a free one was drawn.
C2_ShortUrlWellFormed ==
    /\ \A c \in BagToSet(constructed) : IsShortCode(c.short_url)
    /\ \A i \in DOMAIN bookmarks : IsShortCode(bookmarks[i].short_url)

\* C3: the visits of every Bookmark equal the number of redirects that
\* resolved its short_url, also when redirects of one code run concurrently.
C3_VisitsCountRedirects ==
    \A i \in DOMAIN bookmarks : bookmarks[i].visits = hits[i]

\* C4: no two rows of table user have the same email or the same username,
\* also when two registrations pass the checks before either commits.
C4_UsersUnique ==
    \A i, j \in DOMAIN users :
       i # j => /\ users[i].email # users[j].email
                /\ users[i].username # users[j].username

\* two registrations raced: both passed the checks, the second commit was refused
C4_Witness ==
    /\ Len(users) >= 1
    /\ response = Response("register", HTTP_500_INTERNAL_SERVER_ERROR, handle_500)

BadRequest(msg) == Response("register", 400, Error(msg))

Conflict(msg) == Response("register", 409, Error(msg))

\* the plain-text password a pending registration was made with
Plain(r) == r.password.digest.of

\* C5: register answers with the first failing check of: password shorter
\* than 6, username shorter than 3, username not alphanumeric or with a
\* space, email not valid, email registered, username registered; 201 is
\* answered only for a request that passed all six.
C5_RegisterFirstFailingCheck ==
    [][ /\ \A username \in Usernames, email \in Emails, password \in Passwords :
             Register(username, email, password) =>
               LET c1 == Len(password) < 6
                   c2 == Len(username) < 3
                   c3 == \/ \E i \in DOMAIN username : username[i] \notin Digit \cup Letter
                         \/ \E i \in DOMAIN username : username[i] = " "
                   c4 == ~validators_email(email)
                   c5 == \E i \in DOMAIN users : users[i].email = email
                   c6 == \E i \in DOMAIN users : users[i].username = username
               IN  /\ c1 => response' = BadRequest("Password is too short")
                   /\ ~c1 /\ c2 => response' = BadRequest("username too short")
                   /\ ~c1 /\ ~c2 /\ c3 => response' =
                        BadRequest("username should be alphanumeric char and no spaces")
                   /\ ~c1 /\ ~c2 /\ ~c3 /\ c4 => response' = BadRequest("Email is not valid")
                   /\ ~c1 /\ ~c2 /\ ~c3 /\ ~c4 /\ c5 =>
                        response' = Conflict("Email already exists")
                   /\ ~c1 /\ ~c2 /\ ~c3 /\ ~c4 /\ ~c5 /\ c6 =>
                        response' = Conflict("Username already exists")
                   /\ (c1 \/ c2 \/ c3 \/ c4 \/ c5 \/ c6) => registering' = registering
                   /\ ~(c1 \/ c2 \/ c3 \/ c4 \/ c5 \/ c6) =>
                        /\ response' = response
                        /\ \E r \in BagToSet(registering') :
                             /\ CopiesIn(r, registering') = CopiesIn(r, registering) + 1
                             /\ r.username = username /\ r.email = email
                             /\ Plain(r) = password
        /\ (users' # users \/ (response' # response /\ response'.status = 201)) =>
             \E r \in BagToSet(registering) :
                /\ registering' = Take(registering, r)
                /\ response' = Response("register", 201,
                       [message |-> "User created",
                        user |-> [username |-> r.username, email |-> r.email]])
      ]_vars

\* the last of the six checks answered: the five before it passed
C5_Witness ==
    response = Conflict("Username already exists")

\* C6: a login that fails, with a registered email and a wrong password or
\* with an unregistered email, is answered 401 "wrong credentials".
C6_WrongCredentialsMessage ==
    \A f \in failedLogins :
       /\ f.status = 401
       /\ f.body = Error("wrong credentials")

\* C7: the answer to a failed login is the same whether the email is
\* registered or not, and a failed login changes nothing that is persisted.
C7_FailedLoginTellsNothing ==
    [][ \A email \in LoginEmails, password \in LoginPasswords :
          ( /\ Login(email, password)
            /\ ~ \E i \in DOMAIN users :
                   /\ users[i].email = email
                   /\ check_password_hash(users[i].password, password) )
          => /\ users' = users /\ bookmarks' = bookmarks /\ tokens' = tokens
             /\ \E f \in failedLogins' :
                  response'.status = f.status /\ response'.body = f.body
             /\ \A f1, f2 \in failedLogins' :
                  f1.status = f2.status /\ f1.body = f2.body
      ]_vars

\* logins have failed for both causes
C7_Witness ==
    /\ \E f \in failedLogins : f.cause = "no user"
    /\ \E f \in failedLogins : f.cause = "wrong password"
    /\ response.op = "login" /\ response.status = 401

\* C8: every access token handed to a user X by login, or by a refresh from
\* a refresh token of X, resolves on the current-user route to the username
\* and email of X, whoever registers or logs in in between.
C8_TokensResolveToOwner ==
    /\ \A t \in tokens :
         t.type = "access" => current_user(t) = Response("user", 200, t.to)
    /\ \A t \in tokens :
         t.type = "refresh" =>
           current_user(create_access_token(refresh_identity(t), t.to))
             = Response("user", 200, t.to)
    /\ response.op = "refresh" =>
         current_user(response.body.access) = Response("user", 200, response.body.access.to)

\* the second of two users has just refreshed
C8_Witness ==
    /\ Len(users) = 2
    /\ response.op = "refresh"
    /\ response.body.access.to = Identity(users[2])
    /\ \E t \in tokens : t.type = "access" /\ t.to = Identity(users[1])

\* C9: a redirect of a code no Bookmark has is answered 404 and changes
\* nothing; the visits of a Bookmark never decrease and change only with a
\* redirect of its own code.
C9_VisitsOnlyGrowByRedirect ==
    [][ /\ \A short_url \in Paths :
             ( /\ Redirect(short_url)
               /\ ~ \E i \in DOMAIN bookmarks : bookmarks[i].short_url = short_url )
             => /\ response'.status = 404
                /\ UNCHANGED <<users, bookmarks, tokens, hits>>
        /\ \A i \in DOMAIN bookmarks :
             /\ bookmarks'[i].visits >= bookmarks[i].visits
             /\ bookmarks'[i].visits # bookmarks[i].visits =>
                  /\ response'.status = 302
                  /\ hits'[i] = hits[i] + 1
      ]_vars

====
